---- MODULE Spec2Model ----
(***************************************************************************)
(* Model of launcha (src/launcha/launcha.py): recommend_specs and          *)
(* submit_aws_job, run by up to two CLI processes against one AWS account. *)
(* Strings are sequences of one-character strings.  The EC2 catalog, the   *)
(* Batch job-definition registry and the wall clock are the environment.   *)
(***************************************************************************)
EXTENDS Integers, Sequences, FiniteSets, TLC

VARIABLES
    catalog,                \* EC2: instance type -> describe_instance_types entry
    now,                    \* int(time.time())
    registered,             \* Batch: names of the registered job definitions
    pc,                     \* position of each invocation of submit_aws_job
    docker_tag,             \* parameter docker_tag
    instance_type,          \* parameter instance_type
    given,                  \* num_vcpu, num_memory, num_gpu as passed by the caller
    num_vcpu,               \* local num_vcpu (reassigned at line 87)
    num_memory,             \* local num_memory (reassigned at line 89)
    num_gpu,                \* local num_gpu (reassigned at line 91)
    recommended,            \* value returned by recommend_specs, <<>> before
    timestamp,              \* int(time.time()) as read at line 94, -1 before
    job_name,               \* local job_name
    job_def_name,           \* local job_def_name
    resources_requirements, \* local resources_requirements
    calls,                  \* the boto3 calls each invocation has made, in order
    printed                 \* what each invocation has printed, in order

vars == <<catalog, now, registered, pc, docker_tag, instance_type, given,
          num_vcpu, num_memory, num_gpu, recommended, timestamp, job_name,
          job_def_name, resources_requirements, calls, printed>>

----------------------------------------------------------------------------
(* Bounds *)

MaxSepLen == 1          \* longest middle part of an image reference
MaxGpuEntries == 2      \* most entries in GpuInfo.Gpus
MaxGpuCount == 2        \* largest Count of one entry
MaxTick == 1            \* seconds the clock may advance
T0 == 1699999999        \* clock at the start

Procs == {1, 2}
TagChars == {"a", ":", "/", " ", "-"}
InstanceTypes == {"g4dn.xlarge", "nosuch.type"}
KnownTypes == {"g4dn.xlarge"}
VCpuValues == {2, 4}
MemValues == {1023, 16384}
NumVcpuArgs == {0, 2}
NumMemoryArgs == {0, 2048}
NumGpuArgs == {-1, 0, 1}

\* MEMORY_USAGE_FRACTION = 0.8, as the ratio 8/10
MEMORY_USAGE_FRACTION_NUM == 8
MEMORY_USAGE_FRACTION_DEN == 10

----------------------------------------------------------------------------
(* Strings *)

SeqsUpTo(S, n) == UNION {[1..k -> S] : k \in 0..n}

\* str.replace(old, new) for a one-character old
RECURSIVE Replace(_, _, _)
Replace(s, old, new) ==
    IF s = <<>> THEN <<>>
    ELSE (IF Head(s) = old THEN new ELSE <<Head(s)>>) \o Replace(Tail(s), old, new)

Digit(d) == CASE d = 0 -> "0" [] d = 1 -> "1" [] d = 2 -> "2" [] d = 3 -> "3"
              [] d = 4 -> "4" [] d = 5 -> "5" [] d = 6 -> "6" [] d = 7 -> "7"
              [] d = 8 -> "8" [] d = 9 -> "9"

RECURSIVE StrNat(_)
StrNat(n) == IF n < 10 THEN <<Digit(n)>> ELSE StrNat(n \div 10) \o <<Digit(n % 10)>>

\* str(n) for an int
Str(n) == IF n < 0 THEN <<"-">> \o StrNat(-n) ELSE StrNat(n)

----------------------------------------------------------------------------
(* recommend_specs *)

RECURSIVE SumCounts(_)
SumCounts(gpus) == IF gpus = <<>> THEN 0 ELSE Head(gpus) + SumCounts(Tail(gpus))

\* mutant: rounds the product up instead of truncating it
RecommendedMemoryCeil(size) ==
    (size * MEMORY_USAGE_FRACTION_NUM + MEMORY_USAGE_FRACTION_DEN - 1) \div MEMORY_USAGE_FRACTION_DEN

\* int(size * 0.8): the double product truncated; for a size in MiB (a natural
\* number far below 2^53) this is the floor of 8 * size / 10
RecommendedMemory(size) == (size * MEMORY_USAGE_FRACTION_NUM) \div MEMORY_USAGE_FRACTION_DEN

GpuCount(specs) == IF specs.HasGpuInfo THEN SumCounts(specs.Gpus) ELSE 0

RecommendSpecs(specs) ==
    <<specs.DefaultVCpus, RecommendedMemory(specs.SizeInMiB), GpuCount(specs)>>

----------------------------------------------------------------------------
(* submit_aws_job: local computations *)

JobName(tag, t) ==
    Replace(Replace(Replace(Replace(tag, ":", <<>>), "/", <<"_">>), " ", <<>>), "-", <<"_">>)
        \o Str(t)

JobDefName(tag) == Replace(Replace(tag, ":", <<"_">>), "/", <<"_">>)

\* mutant: the GPU entry is built without the test of line 96
ResourcesRequirementsAlways(gpu) == << [value |-> Str(gpu), type |-> "GPU"] >>

ResourcesRequirements(gpu) ==
    IF gpu # 0 THEN << [value |-> Str(gpu), type |-> "GPU"] >> ELSE <<>>

Resolve(arg, rec) == IF arg = 0 THEN rec ELSE arg

Call(api, result, kwargs) == [api |-> api, result |-> result, args |-> kwargs]

\* a Batch call returns HTTP status 200, returns another status, or raises
Results == {"200", "500", "raise"}

----------------------------------------------------------------------------
(* Initial states *)

\* image references r<middle>t, e.g. r:t, r/t, r-t, rat
Tags == {<<"r">> \o mid \o <<"t">> : mid \in SeqsUpTo(TagChars, MaxSepLen)}

Entries ==
    [DefaultVCpus : VCpuValues, SizeInMiB : MemValues, HasGpuInfo : {FALSE}, Gpus : {<<>>}]
    \cup
    [DefaultVCpus : VCpuValues, SizeInMiB : MemValues, HasGpuInfo : {TRUE},
     Gpus : SeqsUpTo(1..MaxGpuCount, MaxGpuEntries)]

Givens == [num_vcpu : NumVcpuArgs, num_memory : NumMemoryArgs, num_gpu : NumGpuArgs]

InitLocals ==
    /\ now = T0
    /\ registered = {}
    /\ num_vcpu = [p \in Procs |-> given[p].num_vcpu]
    /\ num_memory = [p \in Procs |-> given[p].num_memory]
    /\ num_gpu = [p \in Procs |-> given[p].num_gpu]
    /\ recommended = [p \in Procs |-> <<>>]
    /\ timestamp = [p \in Procs |-> -1]
    /\ job_name = [p \in Procs |-> <<>>]
    /\ job_def_name = [p \in Procs |-> <<>>]
    /\ resources_requirements = [p \in Procs |-> <<>>]
    /\ calls = [p \in Procs |-> <<>>]
    /\ printed = [p \in Procs |-> <<>>]

\* one invocation, any arguments, any catalog entry
Init ==
    /\ catalog \in [KnownTypes -> Entries]
    /\ pc = [p \in Procs |-> IF p = 1 THEN "recommend_specs" ELSE "absent"]
    /\ \E tag \in Tags : docker_tag = [p \in Procs |-> IF p = 1 THEN tag ELSE <<>>]
    /\ \E it \in InstanceTypes : instance_type = [p \in Procs |-> it]
    /\ \E g \in Givens :
           given = [p \in Procs |-> IF p = 1 THEN g
                                    ELSE [num_vcpu |-> 0, num_memory |-> 0, num_gpu |-> 0]]
    /\ InitLocals

----------------------------------------------------------------------------
(* Steps of submit_aws_job *)

args == <<catalog, docker_tag, instance_type, given>>

\* lines 85-99
ResolveSpecs(p) ==
    /\ pc[p] = "recommend_specs"
    /\ \E raises \in BOOLEAN :
         /\ (instance_type[p] \notin DOMAIN catalog) => raises
         /\ IF raises
            THEN /\ calls' = [calls EXCEPT ![p] = Append(@, Call("describe_instance_types", "raise", <<>>))]
                 /\ pc' = [pc EXCEPT ![p] = "raised"]
                 /\ UNCHANGED <<num_vcpu, num_memory, num_gpu, recommended, timestamp,
                                job_name, resources_requirements, printed>>
            ELSE LET rec == RecommendSpecs(catalog[instance_type[p]])
                     gpu == Resolve(num_gpu[p], rec[3])
                 IN /\ calls' = [calls EXCEPT ![p] = Append(@, Call("describe_instance_types", "200", <<>>))]
                    /\ recommended' = [recommended EXCEPT ![p] = rec]
                    /\ printed' = [printed EXCEPT ![p] = Append(@, "recommended")]
                    /\ num_vcpu' = [num_vcpu EXCEPT ![p] = Resolve(@, rec[1])]
                    /\ num_memory' = [num_memory EXCEPT ![p] = Resolve(@, rec[2])]
                    /\ num_gpu' = [num_gpu EXCEPT ![p] = gpu]
                    /\ timestamp' = [timestamp EXCEPT ![p] = now]
                    /\ job_name' = [job_name EXCEPT ![p] = JobName(docker_tag[p], now)]
                    /\ resources_requirements' =
                           [resources_requirements EXCEPT ![p] = ResourcesRequirements(gpu)]
                    /\ pc' = [pc EXCEPT ![p] = "register_job_definition"]
    /\ UNCHANGED <<args, now, registered, job_def_name>>

\* mutant: register_job_definition outside the try statement
RegisterNoTry(p) ==
    /\ pc[p] = "register_job_definition"
    /\ \E res \in Results :
         LET name == JobDefName(docker_tag[p])
         IN /\ job_def_name' = [job_def_name EXCEPT ![p] = name]
            /\ calls' = [calls EXCEPT ![p] = Append(@, Call("register_job_definition", res,
                             [jobDefinitionName |-> name, image |-> docker_tag[p],
                              vcpus |-> num_vcpu[p], memory |-> num_memory[p]]))]
            /\ registered' = IF res = "200" THEN registered \cup {name} ELSE registered
            /\ pc' = [pc EXCEPT ![p] = IF res = "raise" THEN "raised" ELSE "submit_job"]
    /\ UNCHANGED <<args, now, num_vcpu, num_memory, num_gpu, recommended, timestamp,
                   job_name, resources_requirements, printed>>

\* mutant: an error of register_job_definition is caught on the spot and submit_job follows
RegisterThenSubmit(p) ==
    /\ pc[p] = "register_job_definition"
    /\ \E res \in Results :
         LET name == JobDefName(docker_tag[p])
         IN /\ job_def_name' = [job_def_name EXCEPT ![p] = name]
            /\ calls' = [calls EXCEPT ![p] = Append(@, Call("register_job_definition", res,
                             [jobDefinitionName |-> name, image |-> docker_tag[p],
                              vcpus |-> num_vcpu[p], memory |-> num_memory[p]]))]
            /\ registered' = IF res = "200" THEN registered \cup {name} ELSE registered
            /\ pc' = [pc EXCEPT ![p] = "submit_job"]
    /\ UNCHANGED <<args, now, num_vcpu, num_memory, num_gpu, recommended, timestamp,
                   job_name, resources_requirements, printed>>

\* lines 100-113
Register(p) ==
    /\ pc[p] = "register_job_definition"
    /\ \E res \in Results :
         LET name == JobDefName(docker_tag[p])
         IN /\ job_def_name' = [job_def_name EXCEPT ![p] = name]
            /\ calls' = [calls EXCEPT ![p] = Append(@, Call("register_job_definition", res,
                             [jobDefinitionName |-> name, image |-> docker_tag[p],
                              vcpus |-> num_vcpu[p], memory |-> num_memory[p]]))]
            /\ registered' = IF res = "200" THEN registered \cup {name} ELSE registered
            /\ pc' = [pc EXCEPT ![p] = IF res = "raise" THEN "except" ELSE "submit_job"]
    /\ UNCHANGED <<args, now, num_vcpu, num_memory, num_gpu, recommended, timestamp,
                   job_name, resources_requirements, printed>>

\* lines 114-130
Submit(p) ==
    /\ pc[p] = "submit_job"
    /\ \E res \in Results :
         /\ calls' = [calls EXCEPT ![p] = Append(@, Call("submit_job", res,
                          [jobName |-> job_name[p], jobQueue |-> instance_type[p],
                           jobDefinition |-> job_def_name[p],
                           vcpus |-> num_vcpu[p], memory |-> num_memory[p],
                           resourceRequirements |-> resources_requirements[p],
                           defRegistered |-> job_def_name[p] \in registered]))]
         /\ printed' = IF res = "500" THEN [printed EXCEPT ![p] = Append(@, "response")]
                       ELSE printed
         /\ pc' = [pc EXCEPT ![p] = IF res = "200" THEN "finally" ELSE "except"]
    /\ UNCHANGED <<args, now, registered, num_vcpu, num_memory, num_gpu, recommended,
                   timestamp, job_name, job_def_name, resources_requirements>>

\* lines 131-132
Except(p) ==
    /\ pc[p] = "except"
    /\ printed' = [printed EXCEPT ![p] = Append(@, "exception")]
    /\ pc' = [pc EXCEPT ![p] = "finally"]
    /\ UNCHANGED <<args, now, registered, num_vcpu, num_memory, num_gpu, recommended,
                   timestamp, job_name, job_def_name, resources_requirements, calls>>

\* mutant: the response of deregister_job_definition is not checked
DeregisterUnchecked(p) ==
    /\ pc[p] = "finally"
    /\ \E res \in Results :
         /\ calls' = [calls EXCEPT ![p] = Append(@, Call("deregister_job_definition", res,
                          [jobDefinition |-> job_def_name[p]]))]
         /\ registered' = IF res = "200" THEN registered \ {job_def_name[p]} ELSE registered
         /\ printed' = printed
         /\ pc' = [pc EXCEPT ![p] = IF res = "raise" THEN "raised" ELSE "done"]
    /\ UNCHANGED <<args, now, num_vcpu, num_memory, num_gpu, recommended,
                   timestamp, job_name, job_def_name, resources_requirements>>

\* lines 133-137
Deregister(p) ==
    /\ pc[p] = "finally"
    /\ \E res \in Results :
         /\ calls' = [calls EXCEPT ![p] = Append(@, Call("deregister_job_definition", res,
                          [jobDefinition |-> job_def_name[p]]))]
         /\ registered' = IF res = "200" THEN registered \ {job_def_name[p]} ELSE registered
         /\ printed' = IF res = "500" THEN [printed EXCEPT ![p] = Append(@, "response")]
                       ELSE printed
         /\ pc' = [pc EXCEPT ![p] = IF res = "200" THEN "done" ELSE "raised"]
    /\ UNCHANGED <<args, now, num_vcpu, num_memory, num_gpu, recommended,
                   timestamp, job_name, job_def_name, resources_requirements>>

\* the wall clock advances
Tick ==
    /\ now < T0 + MaxTick
    /\ now' = now + 1
    /\ UNCHANGED <<catalog, registered, pc, docker_tag, instance_type, given, num_vcpu,
                   num_memory, num_gpu, recommended, timestamp, job_name, job_def_name,
                   resources_requirements, calls, printed>>

Next ==
    \/ \E p \in Procs : ResolveSpecs(p)
    \/ \E p \in Procs : Register(p)
    \/ \E p \in Procs : Submit(p)
    \/ \E p \in Procs : Except(p)
    \/ \E p \in Procs : Deregister(p)
    \/ Tick

Spec == Init /\ [][Next]_vars

\* two concurrent invocations on one instance type, resources left to the recommender
InitConc ==
    /\ catalog = [it \in KnownTypes |->
                     [DefaultVCpus |-> 4, SizeInMiB |-> 16384, HasGpuInfo |-> TRUE, Gpus |-> <<1>>]]
    /\ pc = [p \in Procs |-> "recommend_specs"]
    /\ docker_tag \in [Procs -> Tags]
    /\ instance_type = [p \in Procs |-> "g4dn.xlarge"]
    /\ given = [p \in Procs |-> [num_vcpu |-> 0, num_memory |-> 0, num_gpu |-> 0]]
    /\ InitLocals

SpecConc == InitConc /\ [][Next]_vars

----------------------------------------------------------------------------
(* Vocabulary of the properties *)

\* what the caller of submit_aws_job observes once it has ended
Outcome(p) == IF pc[p] = "done" THEN "returned" ELSE IF pc[p] = "raised" THEN "raised" ELSE "running"

Terminated(p) == pc[p] \in {"done", "raised"}

CallsOf(p, api) == {i \in DOMAIN calls[p] : calls[p][i].api = api}

CallsWith(p, api, results) == {i \in CallsOf(p, api) : calls[p][i].result \in results}

NumCalls(p, api) == Cardinality(CallsOf(p, api))

HasPrinted(p, what) == \E i \in DOMAIN printed[p] : printed[p][i] = what

SpecsResolved(p) == recommended[p] # <<>>

AllGiven(p) == given[p].num_vcpu # 0 /\ given[p].num_memory # 0 /\ given[p].num_gpu # 0

Failed == {"500", "raise"}

BatchApis == {"register_job_definition", "submit_job", "deregister_job_definition"}

NoGpuDevices(specs) == ~specs.HasGpuInfo \/ specs.Gpus = <<>>

RECURSIVE SumFirst(_, _)
SumFirst(gpus, n) == IF n = 0 THEN 0 ELSE SumFirst(gpus, n - 1) + gpus[n]

----------------------------------------------------------------------------
(* C1 *)

\* C1 as stated: every invocation that has ended has called
\* deregister_job_definition exactly once.
C1_DeregisterOncePerCall ==
    \A p \in Procs : Terminated(p) => NumCalls(p, "deregister_job_definition") = 1

\* C1 as amended: no invocation calls deregister_job_definition twice; an
\* invocation that has ended has called it exactly once if recommend_specs
\* returned (whatever register_job_definition and submit_job did), and not at
\* all if recommend_specs raised.
C1_DeregisterOnceAfterResolve ==
    \A p \in Procs :
        /\ NumCalls(p, "deregister_job_definition") <= 1
        /\ Terminated(p) =>
               NumCalls(p, "deregister_job_definition") = (IF SpecsResolved(p) THEN 1 ELSE 0)

C1_Witness ==
    \E p \in Procs :
        /\ Terminated(p)
        /\ CallsWith(p, "register_job_definition", {"raise"}) # {}
        /\ NumCalls(p, "deregister_job_definition") = 1

----------------------------------------------------------------------------
(* C2 *)

\* C2: when submit_job failed (non-200 or raised) and the deregistration then
\* succeeded, the failure has been printed, deregister has been called and the
\* caller observes something other than the plain return of a successful run.
C2_SubmitFailureSurfaced ==
    \A p \in Procs :
        ( /\ Terminated(p)
          /\ CallsWith(p, "submit_job", Failed) # {}
          /\ CallsWith(p, "deregister_job_definition", {"200"}) # {} )
        => /\ HasPrinted(p, "exception")
           /\ NumCalls(p, "deregister_job_definition") = 1
           /\ Outcome(p) # "returned"

----------------------------------------------------------------------------
(* C3 *)

\* C3: whenever deregister_job_definition has raised or returned a non-200
\* status, the invocation has ended by raising, whether the submission before
\* it succeeded or failed.
C3_DeregisterFailureRaises ==
    \A p \in Procs :
        CallsWith(p, "deregister_job_definition", Failed) # {} => Outcome(p) = "raised"

C3_Witness ==
    \E p \in Procs :
        /\ CallsWith(p, "submit_job", Failed) # {}
        /\ HasPrinted(p, "exception")
        /\ CallsWith(p, "deregister_job_definition", {"500"}) # {}
        /\ Outcome(p) = "raised"

----------------------------------------------------------------------------
(* C4 *)

\* C4: an invocation given nonzero num_vcpu, num_memory and num_gpu makes no
\* instance-catalog query.
C4_NoCatalogCallWhenAllGiven ==
    \A p \in Procs : AllGiven(p) => NumCalls(p, "describe_instance_types") = 0

----------------------------------------------------------------------------
(* C5 *)

\* C5: after register_job_definition has returned a non-200 status, submit_job
\* is not called and, once control is at the deregistration, the failure has
\* been printed.
C5_RegisterNon200IsFailure ==
    \A p \in Procs :
        CallsWith(p, "register_job_definition", {"500"}) # {}
        => /\ NumCalls(p, "submit_job") = 0
           /\ pc[p] # "submit_job"
           /\ pc[p] \in {"finally", "done", "raised"} => HasPrinted(p, "exception")

----------------------------------------------------------------------------
(* C6 *)

\* C6: two invocations with distinct image references that read the same Unix
\* second derive different job names.
C6_JobNamesDistinct ==
    \A p, q \in Procs :
        ( /\ SpecsResolved(p) /\ SpecsResolved(q)
          /\ docker_tag[p] # docker_tag[q]
          /\ timestamp[p] = timestamp[q] )
        => job_name[p] # job_name[q]

----------------------------------------------------------------------------
(* C7 *)

\* C7 as stated: for an instance type without GPU devices recommend_specs
\* returns gpu_count 0 and every submit_job call carries no GPU entry; a GPU
\* entry is carried only when the resolved gpu count is greater than 0.
C7_GpuEntryOnlyIfPositive ==
    \A p \in Procs :
        /\ (SpecsResolved(p) /\ NoGpuDevices(catalog[instance_type[p]]))
               => recommended[p][3] = 0
        /\ \A i \in CallsOf(p, "submit_job") :
               LET rr == calls[p][i].args.resourceRequirements
               IN /\ NoGpuDevices(catalog[instance_type[p]]) => rr = <<>>
                  /\ (\E k \in DOMAIN rr : rr[k].type = "GPU") => num_gpu[p] > 0

\* C7 as amended: for an instance type without GPU devices recommend_specs
\* returns gpu_count 0, and a submit_job call of an invocation whose caller
\* left num_gpu at 0 carries no GPU entry; a GPU entry is carried only when the
\* resolved gpu count is nonzero.
C7_GpuEntryOnlyIfNonzero ==
    \A p \in Procs :
        /\ (SpecsResolved(p) /\ NoGpuDevices(catalog[instance_type[p]]))
               => recommended[p][3] = 0
        /\ \A i \in CallsOf(p, "submit_job") :
               LET rr == calls[p][i].args.resourceRequirements
               IN /\ (NoGpuDevices(catalog[instance_type[p]]) /\ given[p].num_gpu = 0)
                         => rr = <<>>
                  /\ (\E k \in DOMAIN rr : rr[k].type = "GPU") => num_gpu[p] # 0

C7_Witness ==
    \E p \in Procs :
        /\ SpecsResolved(p)
        /\ NoGpuDevices(catalog[instance_type[p]])
        /\ given[p].num_gpu = 0
        /\ recommended[p][3] = 0
        /\ \E i \in CallsOf(p, "submit_job") : calls[p][i].args.resourceRequirements = <<>>

----------------------------------------------------------------------------
(* C8 *)

\* C8: recommend_specs returns the entry's default vcpu count, the floor of
\* 8/10 of its memory in MiB and the sum of the counts of its GPU entries;
\* 4 vcpu, 16384 MiB and one GPU entry of count 1 give (4, 13107, 1).
C8_RecommendedTriple ==
    \A p \in Procs :
        SpecsResolved(p) =>
            LET e == catalog[instance_type[p]]
                r == recommended[p]
            IN /\ r[1] = e.DefaultVCpus
               /\ 10 * r[2] <= 8 * e.SizeInMiB
               /\ 8 * e.SizeInMiB < 10 * (r[2] + 1)
               /\ r[3] = (IF e.HasGpuInfo THEN SumFirst(e.Gpus, Len(e.Gpus)) ELSE 0)
               /\ (e.DefaultVCpus = 4 /\ e.SizeInMiB = 16384 /\ e.HasGpuInfo /\ e.Gpus = <<1>>)
                      => r = <<4, 13107, 1>>

C8_Witness ==
    \E p \in Procs :
        /\ SpecsResolved(p)
        /\ catalog[instance_type[p]] =
               [DefaultVCpus |-> 4, SizeInMiB |-> 16384, HasGpuInfo |-> TRUE, Gpus |-> <<1>>]
        /\ recommended[p] = <<4, 13107, 1>>

----------------------------------------------------------------------------
(* C9 *)

\* the order of the provider calls of one invocation
CallOrder(p) ==
    LET c == calls[p]
    IN /\ \A i \in DOMAIN c :
              c[i].api \in BatchApis =>
                  i > 1 /\ c[1].api = "describe_instance_types" /\ SpecsResolved(p)
       /\ \A i \in CallsOf(p, "submit_job") :
              /\ i > 1
              /\ c[i - 1].api = "register_job_definition"
              /\ c[i - 1].result # "raise"
       /\ \A i \in CallsOf(p, "deregister_job_definition") :
              /\ i = Len(c)
              /\ \E j \in 1..(i - 1) :
                     /\ c[j].api = "register_job_definition"
                     /\ c[j].result = "raise" \/ (j + 1 < i /\ c[j + 1].api = "submit_job")

EndsAfterDeregister(p) ==
    /\ calls[p] # <<>>
    /\ calls[p][Len(calls[p])].api = "deregister_job_definition"
    /\ (pc[p] = "done") <=> (calls[p][Len(calls[p])].result = "200")

\* C9 as stated: the calls follow the state machine and every invocation that
\* has ended did so after its deregistration, DONE when it returned 200 and
\* with an error raised otherwise.
C9_StateMachine ==
    \A p \in Procs : CallOrder(p) /\ (Terminated(p) => EndsAfterDeregister(p))

\* C9 as amended: the calls follow the state machine; an invocation whose
\* recommend_specs returned ends after its deregistration, DONE when it
\* returned 200 and with an error raised otherwise; an invocation whose
\* recommend_specs raised ends with that error and no batch-provider call.
C9_StateMachineAfterResolve ==
    \A p \in Procs :
        /\ CallOrder(p)
        /\ Terminated(p) =>
               IF SpecsResolved(p) THEN EndsAfterDeregister(p)
               ELSE /\ pc[p] = "raised"
                    /\ calls[p] = << Call("describe_instance_types", "raise", <<>>) >>

C9_Witness ==
    \E p \in Procs :
        /\ pc[p] = "done"
        /\ Len(calls[p]) = 4
        /\ calls[p][3].api = "submit_job"
        /\ calls[p][4].result = "200"

----------------------------------------------------------------------------
(* C10 *)

\* C10, second half: invocations whose image references differ never share a
\* job-definition name.
C10_DefNamesDistinct ==
    \A p, q \in Procs :
        ( /\ NumCalls(p, "register_job_definition") = 1
          /\ NumCalls(q, "register_job_definition") = 1
          /\ docker_tag[p] # docker_tag[q] )
        => job_def_name[p] # job_def_name[q]

\* C10, first half: two invocations of one image reference share the name, and
\* one has called submit_job after the other deregistered the definition it had
\* registered.
C10_RaceState ==
    \E p, q \in Procs :
        /\ p # q
        /\ docker_tag[p] = docker_tag[q]
        /\ CallsWith(p, "register_job_definition", {"200"}) # {}
        /\ CallsWith(q, "deregister_job_definition", {"200"}) # {}
        /\ job_def_name[p] = job_def_name[q]
        /\ \E i \in CallsOf(p, "submit_job") : ~calls[p][i].args.defRegistered

C10_NoRace == ~C10_RaceState

====
